---- MODULE Spec2Model ----
(***************************************************************************)
(* A model of salsacsv (src/index.js): the CSV escaper, the column         *)
(* normalizer, the regular-expression tokenizer csvToArray, the encoder    *)
(* toCSV, the decoder fromCSV and the helper cellLabel.                    *)
(*                                                                         *)
(* Text is a sequence of one-character strings.  A JavaScript value is a   *)
(* record [t, s]: t is its typeof-like tag and s the text it renders to    *)
(* (String(value)); null, undefined and objects carry the empty text.      *)
(***************************************************************************)
EXTENDS Integers, Sequences, FiniteSets, TLC

VARIABLES pc, call, csv, ret, lastIndex, results

vars == <<pc, call, csv, ret, lastIndex, results>>

(***************************************************************************)
(* Bounds of the model.                                                    *)
(***************************************************************************)
MaxRow == 11
MaxColumn == 703
MaxTokLen == 4
MaxDecLen == 4
MaxSynthCells == 3
MaxLines == 3
MaxGap == 3
MaxRecords == 2
MaxStrLen == 3
MaxEscLen == 5
MaxShapeLen == 2
MaxShapeRecords == 1
MaxCols == 3

(***************************************************************************)
(* Characters and JavaScript values.                                       *)
(***************************************************************************)
Q == "\""
NL == "\n"
CR == "\r"

Str(s) == [t |-> "string", s |-> s]
Num(s) == [t |-> "number", s |-> s]
Undefined == [t |-> "undefined", s |-> <<>>]
Null == [t |-> "null", s |-> <<>>]
\* An object (a nested structure): its text is that of String(object).
Obj == [t |-> "object",
        s |-> <<"[", "o", "b", "j", "e", "c", "t", " ", "O", "b", "j", "e", "c", "t", "]">>]
True == [t |-> "boolean", s |-> <<"t", "r", "u", "e">>]
NoRet == [t |-> "none", s |-> <<>>]

\* typeof value: null is an object too.
typeof(v) == IF v.t = "null" THEN "object" ELSE v.t

\* value == null: true of null and of undefined.
IsNullish(v) == v.t \in {"null", "undefined"}

Digits == <<"0", "1", "2", "3", "4", "5", "6", "7", "8", "9">>
letters == <<"A", "B", "C", "D", "E", "F", "G", "H", "I", "J", "K", "L", "M",
             "N", "O", "P", "Q", "R", "S", "T", "U", "V", "W", "X", "Y", "Z">>

\* Number.prototype.toString of a non-negative integer: its decimal digits.
RECURSIVE NumberToString(_)
NumberToString(n) ==
    IF n < 10 THEN <<Digits[n + 1]>>
    ELSE NumberToString(n \div 10) \o <<Digits[(n % 10) + 1]>>

(***************************************************************************)
(* columnLabel and cellLabel.                                              *)
(***************************************************************************)
\* The mutant: a positional base-26 numeral, the quotient not decremented.
RECURSIVE columnLabel_positional(_)
columnLabel_positional(columnNumber) ==
    LET letter == letters[(columnNumber % 26) + 1]
        concat == columnNumber \div 26
    IN  IF concat > 0 THEN columnLabel_positional(concat) \o <<letter>>
        ELSE <<letter>>

RECURSIVE columnLabel(_)
columnLabel(columnNumber) ==
    LET letter == letters[(columnNumber % 26) + 1]
        concat == columnNumber \div 26
    IN  IF concat > 0 THEN columnLabel(concat - 1) \o <<letter>>
        ELSE <<letter>>

cellLabel(rowNumber, columnNumber) ==
    columnLabel(columnNumber) \o NumberToString(rowNumber)

(***************************************************************************)
(* csvToArray: the tokenizer.  objPattern, built with the g flag, is a     *)
(* group 1 of four alternatives in this order: the escaped delimiter, an   *)
(* optional CR then LF, a CR, the start of the text; then either a quoted  *)
(* field (group 2: a run of non-quotes, then any number of a doubled quote *)
(* and a run of non-quotes, between two quotes) or an unquoted field       *)
(* (group 3: a run of characters other than quote, delimiter, CR, LF).     *)
(* A text position i is 0-based: the character at i is str[i + 1].  The    *)
(* delimiter is a punctuation character, for which the escaped delimiter   *)
(* is the character itself.                                                *)
(***************************************************************************)
CharAt(str, i) == IF i >= 0 /\ i < Len(str) THEN str[i + 1] ELSE ""

\* Group 1 tried at position i: the length matched by the first alternative
\* that applies, in the pattern's order, or -1 when none does.
DelimiterLength(str, delimiter, i) ==
    IF CharAt(str, i) = delimiter THEN 1
    ELSE IF CharAt(str, i) = CR /\ CharAt(str, i + 1) = NL THEN 2
    ELSE IF CharAt(str, i) = NL THEN 1
    ELSE IF CharAt(str, i) = CR THEN 1
    ELSE IF i = 0 THEN 0
    ELSE -1

\* The rest of a quoted field from position p, the opening quote consumed:
\* the position of the closing quote, or -1.  The greedy loop takes every ""
\* pair; a quote that no quote follows closes the field; at the end of the
\* text the matcher backtracks one iteration and closes on the first quote of
\* the last pair (lastPair), if there is one.
RECURSIVE QuotedClose(_, _, _)
QuotedClose(str, p, lastPair) ==
    IF p >= Len(str) THEN lastPair
    ELSE IF CharAt(str, p) # Q THEN QuotedClose(str, p + 1, lastPair)
    ELSE IF CharAt(str, p + 1) = Q THEN QuotedClose(str, p + 2, p)
    ELSE p

\* The unquoted field from position j: the length of the maximal run.
RECURSIVE UnquotedRun(_, _, _)
UnquotedRun(str, delimiter, j) ==
    IF j >= Len(str) \/ CharAt(str, j) \in {Q, delimiter, CR, NL} THEN 0
    ELSE 1 + UnquotedRun(str, delimiter, j + 1)

NoMatch == [found |-> FALSE, index |-> 0, delim |-> <<>>, quoted |-> FALSE,
            g2 |-> <<>>, g3 |-> <<>>, end |-> 0]

\* The pattern tried at start position i.  The field part cannot fail (the
\* unquoted alternative matches the empty text), so group 1 never backtracks.
MatchAt(str, delimiter, i) ==
    LET dl == DelimiterLength(str, delimiter, i)
        j == i + dl
        close == IF CharAt(str, j) = Q THEN QuotedClose(str, j + 1, -1) ELSE -1
        run == UnquotedRun(str, delimiter, j)
    IN  IF dl < 0 THEN NoMatch
        ELSE IF close >= 0
        THEN [found |-> TRUE, index |-> i, delim |-> SubSeq(str, i + 1, j),
              quoted |-> TRUE, g2 |-> SubSeq(str, j + 2, close), g3 |-> <<>>,
              end |-> close + 1]
        ELSE [found |-> TRUE, index |-> i, delim |-> SubSeq(str, i + 1, j),
              quoted |-> FALSE, g2 |-> <<>>, g3 |-> SubSeq(str, j + 1, j + run),
              end |-> j + run]

\* objPattern.exec(str) with objPattern.lastIndex = from: the match at the
\* first start position from..Len(str) where the pattern matches, or null.
RECURSIVE ExecFrom(_, _, _)
ExecFrom(str, delimiter, from) ==
    IF from > Len(str) THEN NoMatch
    ELSE IF MatchAt(str, delimiter, from).found THEN MatchAt(str, delimiter, from)
    ELSE ExecFrom(str, delimiter, from + 1)

\* matches[2].replace: every doubled quote, left to right, becomes one quote.
RECURSIVE Unescape(_)
Unescape(s) ==
    IF Len(s) < 2 THEN s
    ELSE IF s[1] = Q /\ s[2] = Q THEN <<Q>> \o Unescape(SubSeq(s, 3, Len(s)))
    ELSE <<s[1]>> \o Unescape(SubSeq(s, 2, Len(s)))

\* The value pushed for a match: matches[2] when it is truthy (it took part
\* and is not empty), else matches[3], which is undefined when the quoted
\* alternative matched.
MatchValue(m) ==
    IF m.quoted /\ m.g2 # <<>> THEN Str(Unescape(m.g2))
    ELSE IF m.quoted THEN Undefined
    ELSE Str(m.g3)

hasRowDelimiter(m, delimiter) == Len(m.delim) > 0 /\ m.delim # <<delimiter>>

\* The body of the while loop: a new row on a row delimiter, then the push.
PushMatch(res, m, delimiter) ==
    LET rows == IF hasRowDelimiter(m, delimiter) THEN Append(res, <<>>) ELSE res
    IN  [rows EXCEPT ![Len(rows)] = Append(rows[Len(rows)], MatchValue(m))]

\* csvToArray as a function: the rows, or hang when an iteration matches the
\* empty text at lastIndex, which leaves lastIndex where it was, so that the
\* same match is found again without end.
RECURSIVE csvLoop(_, _, _, _)
csvLoop(str, delimiter, from, res) ==
    LET m == ExecFrom(str, delimiter, from)
    IN  IF ~m.found THEN [hang |-> FALSE, rows |-> res]
        ELSE IF m.end = from THEN [hang |-> TRUE, rows |-> <<>>]
        ELSE csvLoop(str, delimiter, m.end, PushMatch(res, m, delimiter))

csvToArray(str, delimiter) == csvLoop(str, delimiter, 0, <<<<>>>>)

(***************************************************************************)
(* SpecTok: csvToArray run one loop iteration at a time.  lastIndex is     *)
(* objPattern.lastIndex and results the array being filled.  The array of  *)
(* an iteration that never ends grows without bound; the model stops       *)
(* recording cells at MaxCells, more than any run that ends can push (one  *)
(* match at position 0, then at least one character per match).            *)
(***************************************************************************)
TokChars == {"a", ",", ";", Q, NL, CR}
Delimiters == {",", ";"}
MaxCells == MaxTokLen + 2

Strings(chars, n) == UNION {[1..k -> chars] : k \in 0..n}

RECURSIVE CellCount(_)
CellCount(rows) ==
    IF rows = <<>> THEN 0 ELSE Len(rows[1]) + CellCount(Tail(rows))

Rows(rows) == [t |-> "array", rows |-> rows]

InitTok ==
    /\ pc = "exec"
    /\ call \in [op : {"csvToArray"}, str : Strings(TokChars, MaxTokLen),
                 delimiter : Delimiters]
    /\ csv = <<>>
    /\ ret = NoRet
    /\ lastIndex = 0
    /\ results = <<<<>>>>

\* One iteration of while (matches = objPattern.exec(str)) with a match.
ExecStep ==
    /\ pc = "exec"
    /\ LET matches == ExecFrom(call.str, call.delimiter, lastIndex)
       IN  /\ matches.found
           /\ lastIndex' = matches.end
           /\ results' = IF CellCount(results) < MaxCells
                         THEN PushMatch(results, matches, call.delimiter)
                         ELSE results
    /\ UNCHANGED <<pc, call, csv, ret>>

\* exec finds no match: it resets lastIndex, the loop ends, results is returned.
ExecReturn ==
    /\ pc = "exec"
    /\ ~ExecFrom(call.str, call.delimiter, lastIndex).found
    /\ pc' = "done"
    /\ ret' = Rows(results)
    /\ lastIndex' = 0
    /\ UNCHANGED <<call, csv, results>>

NextTok == ExecStep \/ ExecReturn

SpecTok == InitTok /\ [][NextTok]_vars

\* The loop is sequential code: an iteration that can run does run.
SpecTokFair == SpecTok /\ WF_vars(NextTok)

\* C4: csvToArray terminates and returns rows for every text and delimiter;
\* on the empty text it returns one row with a single empty cell.
C4_Terminates ==
    <>(/\ pc = "done"
       /\ (call.str = <<>> => ret = Rows(<<<<Str(<<>>)>>>>)))

(***************************************************************************)
(* escapeCSV and detectColumn.  A column as the caller passes it is a      *)
(* record: kind "string" (the text is in key), "object" (a descriptor) or  *)
(* "other" (null, undefined, a number, ...).  A record of the data is a    *)
(* sequence of [k, v] pairs in insertion order.                            *)
(***************************************************************************)
RECURSIVE DoubleQuotes(_)
DoubleQuotes(s) ==
    IF s = <<>> THEN <<>>
    ELSE (IF s[1] = Q THEN <<Q, Q>> ELSE <<s[1]>>) \o DoubleQuotes(Tail(s))

escapeCSV(str) == <<Q>> \o DoubleQuotes(str) \o <<Q>>

Column(key, header, required, parser, parseEmpty, converter) ==
    [kind |-> "object", key |-> key, header |-> header, required |-> required,
     parser |-> parser, parseEmpty |-> parseEmpty, converter |-> converter]

KeyColumn(key) == Column(key, Undefined, FALSE, "none", FALSE, "none")

StringColumn(s) == [KeyColumn(Str(s)) EXCEPT !.kind = "string"]

NullColumn == [KeyColumn(Undefined) EXCEPT !.kind = "null"]

OtherColumn == [KeyColumn(Undefined) EXCEPT !.kind = "other"]

detectColumn(column) ==
    IF column.kind = "string" /\ Len(column.key.s) > 0 THEN KeyColumn(column.key)
    ELSE IF column.kind = "object" THEN column
    ELSE NullColumn

\* The mutant: the columns that normalize to null are dropped, so that the
\* columns after them move to the left.
MapDetectColumn_compact(columns) ==
    SelectSeq([i \in 1..Len(columns) |-> detectColumn(columns[i])],
              LAMBDA column : column.kind # "null")

\* columns.map(detectColumn)
MapDetectColumn(columns) == [i \in 1..Len(columns) |-> detectColumn(columns[i])]

HasKey(obj, k) == \E i \in 1..Len(obj) : obj[i].k = k

\* obj[key]: undefined when the object has no such property.
Get(obj, key) ==
    IF key.t = "string" /\ HasKey(obj, key.s)
    THEN obj[CHOOSE i \in 1..Len(obj) : obj[i].k = key.s].v
    ELSE Undefined

\* The mutant: a new key is inserted before the keys already there.
Put_front(obj, k, v) ==
    IF HasKey(obj, k)
    THEN [i \in 1..Len(obj) |-> IF obj[i].k = k THEN [k |-> k, v |-> v] ELSE obj[i]]
    ELSE <<[k |-> k, v |-> v]>> \o obj

\* result[key] = value: in place when the key is there, else appended.
Put(obj, k, v) ==
    IF HasKey(obj, k)
    THEN [i \in 1..Len(obj) |-> IF obj[i].k = k THEN [k |-> k, v |-> v] ELSE obj[i]]
    ELSE Append(obj, [k |-> k, v |-> v])

\* Object.keys(obj)
Keys(obj) == [i \in 1..Len(obj) |-> obj[i].k]

\* Array.prototype.join of texts.
RECURSIVE Join(_, _)
Join(texts, sep) ==
    IF texts = <<>> THEN <<>>
    ELSE IF Len(texts) = 1 THEN texts[1]
    ELSE texts[1] \o sep \o Join(Tail(texts), sep)

(***************************************************************************)
(* The converters a caller may pass, by name, as in tests/data/orders.js:  *)
(* each is a function of the value and of {obj, key, row, column}.         *)
(***************************************************************************)
Converters == {"none", "label", "toNull", "toObject", "suffix"}

Convert(converter, value, obj, key, row, column) ==
    CASE converter = "label" -> Str(<<"=">> \o cellLabel(row, column))
      [] converter = "toNull" -> Null
      [] converter = "toObject" -> Obj
      [] converter = "suffix" ->
            IF value.t = "string" THEN Str(value.s \o <<"x">>) ELSE value
      [] OTHER -> value

(***************************************************************************)
(* toCSV.                                                                  *)
(***************************************************************************)
IsDigit(c) == \E j \in 1..10 : Digits[j] = c

\* The test of the pattern digits, - or /, digits, - or /, digits, anchored
\* at both ends.
LooksLikeDate(s) ==
    \E i, j \in 1..Len(s) :
        /\ 1 < i /\ i + 1 < j /\ j < Len(s)
        /\ s[i] \in {"-", "/"}
        /\ s[j] \in {"-", "/"}
        /\ \A k \in (1..Len(s)) \ {i, j} : IsDigit(s[k])

\* The mutant: every non-empty string that is not a formula is escaped, a
\* date-like one too.
shouldEscape_dates(cellValue) ==
    /\ typeof(cellValue) = "string"
    /\ Len(cellValue.s) > 0
    /\ cellValue.s[1] # "="

shouldEscape(cellValue) ==
    /\ typeof(cellValue) = "string"
    /\ Len(cellValue.s) > 0
    /\ cellValue.s[1] # "="
    /\ ~LooksLikeDate(cellValue.s)

\* detectColumnsFromJSON: a column per key of the first record; with
\* includeHeader each column that is not null gets the key as its header.
detectColumnsFromJSON(rows, options) ==
    LET keys == IF rows = <<>> THEN <<>> ELSE Keys(rows[1])
        format(column, i) ==
            IF column.kind # "null" /\ options.includeHeader
            THEN [column EXCEPT !.header = Str(keys[i])]
            ELSE column
    IN  [i \in 1..Len(keys) |-> format(detectColumn(StringColumn(keys[i])), i)]

\* The mutant: the row passed is the 0-based line index, not the line number.
ConverterDetails_zeroBased(obj, key, rowIndex, columnIndex, startIndex) ==
    [obj |-> obj, key |-> key, row |-> rowIndex + startIndex,
     column |-> columnIndex]

\* The details object a converter is called with for the record at 0-based
\* rowIndex and the column at 0-based columnIndex.
ConverterDetails(obj, key, rowIndex, columnIndex, startIndex) ==
    [obj |-> obj, key |-> key, row |-> rowIndex + startIndex + 1,
     column |-> columnIndex]

NoCall == [called |-> FALSE, r |-> 0, c |-> 0, value |-> Undefined, row |-> 0, column |-> 0]

\* The mutant: only null and undefined clear a cell, an object is rendered
\* as its String() text.
EncodeCell_noObjectClear(obj, rowIndex, column, columnIndex, startIndex) ==
    IF column.kind = "null" THEN [cell |-> Str(<<>>), call |-> NoCall]
    ELSE
        LET key == column.key
            raw == Get(obj, key)
            isFunction == column.converter # "none"
            details == ConverterDetails(obj, key, rowIndex, columnIndex, startIndex)
            converted == IF isFunction
                         THEN Convert(column.converter, raw, details.obj, details.key,
                                      details.row, details.column)
                         ELSE raw
            cellValue == IF IsNullish(converted) THEN Str(<<>>)
                         ELSE Str(converted.s)
        IN  [cell |-> IF shouldEscape(cellValue) THEN Str(escapeCSV(cellValue.s))
                      ELSE cellValue,
             call |-> IF isFunction
                      THEN [called |-> TRUE, r |-> rowIndex, c |-> columnIndex,
                            value |-> raw, row |-> details.row, column |-> details.column]
                      ELSE NoCall]

\* processColumn of toCSV: the cell value of one column of one record, and
\* the converter call made for it, if any.
EncodeCell(obj, rowIndex, column, columnIndex, startIndex) ==
    IF column.kind = "null" THEN [cell |-> Str(<<>>), call |-> NoCall]
    ELSE
        LET key == column.key
            raw == Get(obj, key)
            isFunction == column.converter # "none"
            details == ConverterDetails(obj, key, rowIndex, columnIndex, startIndex)
            converted == IF isFunction
                         THEN Convert(column.converter, raw, details.obj, details.key,
                                      details.row, details.column)
                         ELSE raw
            canClear == IsNullish(converted) \/ typeof(converted) = "object"
            cellValue == IF canClear THEN Str(<<>>) ELSE converted
        IN  [cell |-> IF shouldEscape(cellValue) THEN Str(escapeCSV(cellValue.s))
                      ELSE cellValue,
             call |-> IF isFunction
                      THEN [called |-> TRUE, r |-> rowIndex, c |-> columnIndex,
                            value |-> raw, row |-> details.row, column |-> details.column]
                      ELSE NoCall]

\* The calls made, in order, among a sequence of cell results.
RECURSIVE CallsOf(_)
CallsOf(cells) ==
    IF cells = <<>> THEN <<>>
    ELSE (IF cells[1].call.called THEN <<cells[1].call>> ELSE <<>>) \o CallsOf(Tail(cells))

RECURSIVE Concat(_)
Concat(seqs) == IF seqs = <<>> THEN <<>> ELSE seqs[1] \o Concat(Tail(seqs))

\* getLine: the cells of a record, joined by the delimiter.
getLine(obj, rowIndex, columns, delimiter, startIndex) ==
    LET cells == [c \in 1..Len(columns) |->
                     EncodeCell(obj, rowIndex, columns[c], c - 1, startIndex)]
    IN  [line |-> Join([c \in 1..Len(columns) |-> cells[c].cell.s], <<delimiter>>),
         calls |-> CallsOf(cells)]

HeaderCell(column) ==
    IF column.kind # "null" /\ typeof(column.header) = "string"
       /\ Len(column.header.s) > 0
    THEN escapeCSV(column.header.s)
    ELSE <<>>

HeaderLine(columns, delimiter) ==
    Join([c \in 1..Len(columns) |-> HeaderCell(columns[c])], <<delimiter>>)

\* options.delimiter || ',': the empty text stands for an absent delimiter.
OptDelimiter(options) == IF options.delimiter = "" THEN "," ELSE options.delimiter

\* The mutant: the first argument is processed whether it is an array or not.
toCSV_unchecked(rows, columns, options) ==
    LET cols == IF ~columns.given
                THEN detectColumnsFromJSON(rows.items, options)
                ELSE MapDetectColumn(columns.items)
        delimiter == OptDelimiter(options)
        startIndex == IF options.includeHeader THEN 1 ELSE 0
        got == [r \in 1..Len(rows.items) |->
                   getLine(rows.items[r], r - 1, cols, delimiter, startIndex)]
        dataLines == [r \in 1..Len(rows.items) |-> got[r].line]
        lines == IF options.includeHeader
                 THEN <<HeaderLine(cols, delimiter)>> \o dataLines
                 ELSE dataLines
    IN  [kind |-> "ok", error |-> "",
         text |-> Join(lines, <<NL>>),
         calls |-> Concat([r \in 1..Len(rows.items) |-> got[r].calls])]

\* toCSV(rows, columns, options).  rows is [isArray, items]; columns is
\* [given, items], given FALSE standing for null or undefined.
toCSV(rows, columns, options) ==
    IF ~rows.isArray
    THEN [kind |-> "throw", error |-> "First argument is not an array",
          text |-> <<>>, calls |-> <<>>]
    ELSE
        LET cols == IF ~columns.given
                    THEN detectColumnsFromJSON(rows.items, options)
                    ELSE MapDetectColumn(columns.items)
            delimiter == OptDelimiter(options)
            startIndex == IF options.includeHeader THEN 1 ELSE 0
            got == [r \in 1..Len(rows.items) |->
                       getLine(rows.items[r], r - 1, cols, delimiter, startIndex)]
            dataLines == [r \in 1..Len(rows.items) |-> got[r].line]
            lines == IF options.includeHeader
                     THEN <<HeaderLine(cols, delimiter)>> \o dataLines
                     ELSE dataLines
        IN  [kind |-> "ok", error |-> "",
             text |-> Join(lines, <<NL>>),
             calls |-> Concat([r \in 1..Len(rows.items) |-> got[r].calls])]

(***************************************************************************)
(* The parsers a caller may pass, by name: each is a function of the cell  *)
(* text and of {key, row, column}.                                         *)
(***************************************************************************)
Parsers == {"none", "toNull", "label", "unsuffix"}

Parse(parser, value, key, row, column) ==
    CASE parser = "label" -> Str(cellLabel(row, column))
      [] parser = "toNull" -> Null
      [] parser = "unsuffix" ->
            IF Len(value.s) > 0 /\ value.s[Len(value.s)] = "x"
            THEN Str(SubSeq(value.s, 1, Len(value.s) - 1))
            ELSE value
      [] OTHER -> value

(***************************************************************************)
(* fromCSV.                                                                *)
(***************************************************************************)
\* The mutant: every pair of line breaks, left to right, becomes one line
\* break, so that a run of three leaves two.
RECURSIVE CollapseLineBreaks_pairs(_)
CollapseLineBreaks_pairs(s) ==
    IF Len(s) < 2 THEN s
    ELSE IF s[1] = NL /\ s[2] = NL
    THEN <<NL>> \o CollapseLineBreaks_pairs(SubSeq(s, 3, Len(s)))
    ELSE <<s[1]>> \o CollapseLineBreaks_pairs(Tail(s))

\* replace of every run of two or more line breaks by one line break.
RECURSIVE CollapseLineBreaks(_)
CollapseLineBreaks(s) ==
    IF Len(s) < 2 THEN s
    ELSE IF s[1] = NL /\ s[2] = NL THEN CollapseLineBreaks(Tail(s))
    ELSE <<s[1]>> \o CollapseLineBreaks(Tail(s))

\* replace, without the g flag, of the first match of: a line break at the
\* end, or a line break at the start.  The leftmost match wins, so a leading
\* line break is the one removed when there is one.
StripLineBreak(s) ==
    IF s # <<>> /\ s[1] = NL THEN Tail(s)
    ELSE IF s # <<>> /\ s[Len(s)] = NL THEN SubSeq(s, 1, Len(s) - 1)
    ELSE s

Preprocess(csvStr) == StripLineBreak(CollapseLineBreaks(csvStr))

\* csvStr.split('\n')[0]
RECURSIVE FirstLine(_)
FirstLine(s) ==
    IF s = <<>> \/ s[1] = NL THEN <<>> ELSE <<s[1]>> \o FirstLine(Tail(s))

\* A cell of the first line as a column input: a string, or undefined.
CellColumn(cell) == IF cell.t = "string" THEN StringColumn(cell.s) ELSE OtherColumn

\* detectColumnsFromCSV: the columns, or hang when tokenizing the first line
\* does not end.
detectColumnsFromCSV(csvStr, options) ==
    LET tok == csvToArray(FirstLine(csvStr), OptDelimiter(options))
        split == IF tok.rows = <<>> THEN <<>> ELSE tok.rows[1]
        columns == IF options.includeHeader
                   THEN [i \in 1..Len(split) |-> CellColumn(split[i])]
                   ELSE [i \in 1..Len(split) |->
                            StringColumn(<<"c", "o", "l">> \o NumberToString(i))]
    IN  [hang |-> tok.hang, columns |-> MapDetectColumn(columns)]

\* The details object a parser is called with.
ParserDetails(key, rowIndex, columnIndex, startIndex) ==
    [key |-> key, row |-> rowIndex + startIndex + 1, column |-> columnIndex]

validColumn(column) ==
    column.kind # "null" /\ column.key.t = "string" /\ Len(column.key.s) > 0

isEmpty(cellValue) == IsNullish(cellValue) \/ cellValue = Str(<<>>)

\* The mutant: a required column is in error only when its value is the
\* empty text, not when it is null or undefined.
DecodeCell_blankOnly(line, rowIndex, column, columnIndex, startIndex, includeEmptyValues) ==
    LET raw == IF columnIndex < Len(line) THEN line[columnIndex + 1] ELSE Undefined
        canParse == /\ raw.t # "undefined"
                    /\ column.parser # "none"
                    /\ (column.parseEmpty \/ raw # Str(<<>>))
        details == ParserDetails(column.key, rowIndex, columnIndex, startIndex)
        cellValue == IF canParse
                     THEN Parse(column.parser, raw, details.key, details.row,
                                details.column)
                     ELSE raw
    IN  [value |-> cellValue,
         canAssign |-> includeEmptyValues \/ ~isEmpty(cellValue),
         hasError |-> column.required /\ cellValue = Str(<<>>),
         call |-> IF canParse
                  THEN [called |-> TRUE, r |-> rowIndex, c |-> columnIndex,
                        value |-> raw, row |-> details.row, column |-> details.column]
                  ELSE NoCall]

\* The mutant: the value is assigned whether it is empty or not.
DecodeCell_alwaysAssign(line, rowIndex, column, columnIndex, startIndex, includeEmptyValues) ==
    LET raw == IF columnIndex < Len(line) THEN line[columnIndex + 1] ELSE Undefined
        canParse == /\ raw.t # "undefined"
                    /\ column.parser # "none"
                    /\ (column.parseEmpty \/ raw # Str(<<>>))
        details == ParserDetails(column.key, rowIndex, columnIndex, startIndex)
        cellValue == IF canParse
                     THEN Parse(column.parser, raw, details.key, details.row,
                                details.column)
                     ELSE raw
    IN  [value |-> cellValue,
         canAssign |-> TRUE,
         hasError |-> column.required /\ isEmpty(cellValue),
         call |-> IF canParse
                  THEN [called |-> TRUE, r |-> rowIndex, c |-> columnIndex,
                        value |-> raw, row |-> details.row, column |-> details.column]
                  ELSE NoCall]

\* The mutant: the parser is called on an empty cell whether parseEmpty is
\* set or not.
DecodeCell_parseAll(line, rowIndex, column, columnIndex, startIndex, includeEmptyValues) ==
    LET raw == IF columnIndex < Len(line) THEN line[columnIndex + 1] ELSE Undefined
        canParse == /\ raw.t # "undefined"
                    /\ column.parser # "none"
        details == ParserDetails(column.key, rowIndex, columnIndex, startIndex)
        cellValue == IF canParse
                     THEN Parse(column.parser, raw, details.key, details.row,
                                details.column)
                     ELSE raw
    IN  [value |-> cellValue,
         canAssign |-> includeEmptyValues \/ ~isEmpty(cellValue),
         hasError |-> column.required /\ isEmpty(cellValue),
         call |-> IF canParse
                  THEN [called |-> TRUE, r |-> rowIndex, c |-> columnIndex,
                        value |-> raw, row |-> details.row, column |-> details.column]
                  ELSE NoCall]

\* processColumn of fromCSV for a valid column: the value, the parser call
\* made, whether the value is assigned and whether the column is in error.
DecodeCell(line, rowIndex, column, columnIndex, startIndex, includeEmptyValues) ==
    LET raw == IF columnIndex < Len(line) THEN line[columnIndex + 1] ELSE Undefined
        canParse == /\ raw.t # "undefined"
                    /\ column.parser # "none"
                    /\ (column.parseEmpty \/ raw # Str(<<>>))
        details == ParserDetails(column.key, rowIndex, columnIndex, startIndex)
        cellValue == IF canParse
                     THEN Parse(column.parser, raw, details.key, details.row,
                                details.column)
                     ELSE raw
    IN  [value |-> cellValue,
         canAssign |-> includeEmptyValues \/ ~isEmpty(cellValue),
         hasError |-> column.required /\ isEmpty(cellValue),
         call |-> IF canParse
                  THEN [called |-> TRUE, r |-> rowIndex, c |-> columnIndex,
                        value |-> raw, row |-> details.row, column |-> details.column]
                  ELSE NoCall]

\* columns.reduce(processColumn, {}) from column c on (1-based), result and
\* calls being what the columns before gave.
RECURSIVE getRow(_, _, _, _, _, _, _, _)
getRow(line, rowIndex, columns, c, startIndex, includeEmptyValues, result, calls) ==
    IF c > Len(columns) THEN [threw |-> FALSE, key |-> <<>>, obj |-> result, calls |-> calls]
    ELSE IF ~validColumn(columns[c])
    THEN getRow(line, rowIndex, columns, c + 1, startIndex, includeEmptyValues,
                result, calls)
    ELSE
        LET cell == DecodeCell(line, rowIndex, columns[c], c - 1, startIndex,
                               includeEmptyValues)
            calls2 == IF cell.call.called THEN Append(calls, cell.call) ELSE calls
        IN  IF cell.hasError
            THEN [threw |-> TRUE, key |-> columns[c].key.s, obj |-> result,
                  calls |-> calls2]
            ELSE getRow(line, rowIndex, columns, c + 1, startIndex, includeEmptyValues,
                        IF cell.canAssign THEN Put(result, columns[c].key.s, cell.value)
                        ELSE result,
                        calls2)

\* csvLines.map(getRow) from line r on (1-based): the first error ends it.
RECURSIVE MapGetRow(_, _, _, _, _, _, _)
MapGetRow(csvLines, r, columns, startIndex, includeEmptyValues, rows, calls) ==
    IF r > Len(csvLines)
    THEN [kind |-> "ok", error |-> "", key |-> <<>>, records |-> rows, calls |-> calls]
    ELSE
        LET row == getRow(csvLines[r], r - 1, columns, 1, startIndex,
                          includeEmptyValues, <<>>, calls)
        IN  IF row.threw
            THEN [kind |-> "throw", error |-> "Required column is empty",
                  key |-> row.key, records |-> <<>>, calls |-> row.calls]
            ELSE MapGetRow(csvLines, r + 1, columns, startIndex, includeEmptyValues,
                           Append(rows, row.obj), row.calls)

Outcome(kind, error) ==
    [kind |-> kind, error |-> error, key |-> <<>>, records |-> <<>>, calls |-> <<>>]

\* fromCSV(csvStr, columns, options).  csvStr is [isString, s]; columns is
\* [given, items], given FALSE standing for null or undefined.
fromCSV(csvStr, columns, options) ==
    IF ~csvStr.isString THEN Outcome("throw", "First argument is not a string")
    ELSE
        LET str == Preprocess(csvStr.s)
            delimiter == OptDelimiter(options)
            startIndex == IF options.includeHeader THEN 1 ELSE 0
            useDefaultColumns == ~columns.given /\ Len(str) > 0
            detected == IF useDefaultColumns THEN detectColumnsFromCSV(str, options)
                        ELSE [hang |-> FALSE, columns |-> MapDetectColumn(columns.items)]
            tok == csvToArray(str, delimiter)
            csvLines == SubSeq(tok.rows, startIndex + 1, Len(tok.rows))
        IN  IF ~useDefaultColumns /\ ~columns.given
            THEN Outcome("throw", "TypeError: columns.map")
            ELSE IF detected.hang \/ tok.hang THEN Outcome("hang", "")
            ELSE MapGetRow(csvLines, 1, detected.columns, startIndex,
                           options.includeEmptyValues, <<>>, <<>>)

(***************************************************************************)
(* SpecLabel: a caller invokes cellLabel on a row and a column.            *)
(***************************************************************************)
InitLabel ==
    /\ pc = "call"
    /\ call \in [op : {"cellLabel"}, rowNumber : 0..MaxRow, columnNumber : 0..MaxColumn]
    /\ csv = <<>>
    /\ ret = NoRet
    /\ lastIndex = 0
    /\ results = <<>>

CellLabelCall ==
    /\ pc = "call"
    /\ call.op = "cellLabel"
    /\ ret' = Str(cellLabel(call.rowNumber, call.columnNumber))
    /\ pc' = "done"
    /\ UNCHANGED <<call, csv, lastIndex, results>>

NextLabel == CellLabelCall

SpecLabel == InitLabel /\ [][NextLabel]_vars

(***************************************************************************)
(* SpecDec: a caller invokes fromCSV on a text.  The texts are every text  *)
(* of up to MaxDecLen characters, and the texts of one or two rows of      *)
(* MaxSynthCells cells, a cell being plain or quoted around a line break.  *)
(***************************************************************************)
DecChars == {"a", ",", Q, NL}

SynthCells == {<<"a">>, <<Q, "a", NL, "a", Q>>}

SynthRows == {Join(cells, <<",">>) : cells \in [1..MaxSynthCells -> SynthCells]}

SynthTexts == SynthRows \cup {r1 \o <<NL>> \o r2 : r1 \in SynthRows, r2 \in SynthRows}

A == <<"a">>
B == <<"b">>

Absent == [given |-> FALSE, items |-> <<>>]
Given(columns) == [given |-> TRUE, items |-> columns]

\* The column sequences a caller passes to fromCSV.
DecColumns ==
    {Absent,
     Given(<<StringColumn(A)>>),
     Given(<<StringColumn(A), StringColumn(B)>>),
     Given(<<Column(Str(A), Undefined, TRUE, "none", FALSE, "none"), StringColumn(B)>>),
     Given(<<StringColumn(A), Column(Str(B), Undefined, TRUE, "none", FALSE, "none")>>),
     Given(<<StringColumn(A), Column(Str(B), Undefined, TRUE, "toNull", FALSE, "none")>>),
     Given(<<Column(Str(A), Undefined, FALSE, "toNull", TRUE, "none"),
             Column(Str(B), Undefined, TRUE, "label", TRUE, "none")>>),
     Given(<<Column(Str(A), Undefined, FALSE, "label", FALSE, "none"),
             Column(Str(A), Undefined, FALSE, "none", FALSE, "none")>>),
     Given(<<OtherColumn, Column(Str(B), Undefined, TRUE, "unsuffix", FALSE, "none")>>),
     Given(<<StringColumn(<<>>), Column(Undefined, Undefined, TRUE, "label", TRUE, "none"),
             StringColumn(B)>>)}

DecOptions == [includeHeader : BOOLEAN, includeEmptyValues : BOOLEAN, delimiter : {""}]

Text(s) == [isString |-> TRUE, s |-> s]

InitDec ==
    /\ pc = "call"
    /\ call \in [op : {"fromCSV"},
                 csvStr : {Text(s) : s \in Strings(DecChars, MaxDecLen) \cup SynthTexts},
                 columns : DecColumns,
                 options : DecOptions]
    /\ csv = <<>>
    /\ ret = NoRet
    /\ lastIndex = 0
    /\ results = <<>>

\* The call returns or throws (pc = "done"), or never ends (pc = "hang").
FromCSVCall ==
    /\ pc = "call"
    /\ call.op = "fromCSV"
    /\ ret' = fromCSV(call.csvStr, call.columns, call.options)
    /\ pc' = IF ret'.kind = "hang" THEN "hang" ELSE "done"
    /\ UNCHANGED <<call, csv, lastIndex, results>>

NextDec == FromCSVCall

SpecDec == InitDec /\ [][NextDec]_vars

(***************************************************************************)
(* SpecBlank: fromCSV on a text made of data lines with runs of line       *)
(* breaks between them: gaps[i] line breaks separate line i from line      *)
(* i + 1.                                                                  *)
(***************************************************************************)
DataLines ==
    {<<"a">>, <<"a", ",", "a">>, <<",", "a">>, <<Q, "a", Q>>, <<Q, "a", ",", "a", Q>>}

RECURSIVE Repeat(_, _)
Repeat(c, n) == IF n = 0 THEN <<>> ELSE <<c>> \o Repeat(c, n - 1)

\* The lines, line i and line i + 1 separated by gaps[i] line breaks.
RECURSIVE GapJoin(_, _)
GapJoin(lines, gaps) ==
    IF Len(lines) = 1 THEN lines[1]
    ELSE lines[1] \o Repeat(NL, gaps[1]) \o GapJoin(Tail(lines), Tail(gaps))

BlankColumns ==
    {Absent,
     Given(<<StringColumn(A), StringColumn(B)>>),
     Given(<<StringColumn(A), Column(Str(B), Undefined, TRUE, "none", FALSE, "none")>>)}

InitBlank ==
    /\ pc = "call"
    /\ \E n \in 1..MaxLines :
         \E lines \in [1..n -> DataLines] :
           \E gaps \in [1..(n - 1) -> 1..MaxGap] :
             \E columns \in BlankColumns :
               \E includeHeader \in BOOLEAN :
                 call = [op |-> "fromCSV",
                         csvStr |-> Text(GapJoin(lines, gaps)),
                         columns |-> columns,
                         options |-> [includeHeader |-> includeHeader,
                                      includeEmptyValues |-> FALSE,
                                      delimiter |-> ""],
                         lines |-> lines,
                         gaps |-> gaps]
    /\ csv = <<>>
    /\ ret = NoRet
    /\ lastIndex = 0
    /\ results = <<>>

SpecBlank == InitBlank /\ [][NextDec]_vars

(***************************************************************************)
(* SpecRT: a caller encodes records with toCSV, then decodes the text with *)
(* fromCSV, passing the same columns and options to both.  The records     *)
(* hold fields a and b; or one field, name, holding a text of up to        *)
(* MaxStrLen characters.                                                   *)
(***************************************************************************)
Field(k, v) == [k |-> k, v |-> v]

\* The records with fields a and b, each absent or holding a value.
Records ==
    {fa \o fb : fa \in {<<>>} \cup {<<Field(A, v)>> : v \in {Str(A), Null, Obj}},
                fb \in {<<>>} \cup {<<Field(B, v)>> : v \in {Str(A), Num(<<"5">>)}}}

Name == <<"n", "a", "m", "e">>

RTChars == {"a", "=", ",", Q, NL}

EncColumns ==
    {Absent,
     Given(<<StringColumn(A), StringColumn(B)>>),
     Given(<<StringColumn(B), StringColumn(A)>>),
     Given(<<StringColumn(A), Column(Str(B), Str(B), FALSE, "unsuffix", FALSE, "suffix")>>),
     Given(<<StringColumn(A), StringColumn(B),
             Column(Undefined, Str(<<"T">>), FALSE, "none", FALSE, "label")>>),
     Given(<<Column(Str(A), Undefined, FALSE, "none", FALSE, "toNull"), StringColumn(B)>>),
     Given(<<Column(Str(B), Undefined, FALSE, "label", TRUE, "label"),
             Column(Str(A), Undefined, FALSE, "none", FALSE, "toObject")>>),
     Given(<<OtherColumn, StringColumn(A)>>)}

Array(items) == [isArray |-> TRUE, items |-> items]

InitRT ==
    /\ pc = "call"
    /\ \/ call \in [op : {"toCSV"},
                    rows : {Array(items) : items \in Strings(Records, MaxRecords)},
                    columns : EncColumns,
                    options : [includeHeader : BOOLEAN, includeEmptyValues : {FALSE},
                               delimiter : {"", ";"}]]
       \/ call \in [op : {"toCSV"},
                    rows : {Array(<<<<Field(Name, Str(s))>>>>) :
                              s \in Strings(RTChars, MaxStrLen) \ {<<>>}},
                    columns : {Given(<<StringColumn(Name)>>)},
                    options : [includeHeader : {FALSE}, includeEmptyValues : {FALSE},
                               delimiter : {""}]]
    /\ csv = <<>>
    /\ ret = NoRet
    /\ lastIndex = 0
    /\ results = <<>>

ToCSVCall ==
    /\ pc = "call"
    /\ call.op = "toCSV"
    /\ csv' = toCSV(call.rows, call.columns, call.options)
    /\ pc' = "encoded"
    /\ UNCHANGED <<call, ret, lastIndex, results>>

\* fromCSV on the text toCSV returned: it returns or throws (pc = "done"),
\* or never ends (pc = "hang").
FromCSVBack ==
    /\ pc = "encoded"
    /\ csv.kind = "ok"
    /\ ret' = fromCSV(Text(csv.text), call.columns, call.options)
    /\ pc' = IF ret'.kind = "hang" THEN "hang" ELSE "done"
    /\ UNCHANGED <<call, csv, lastIndex, results>>

NextRT == ToCSVCall \/ FromCSVBack

SpecRT == InitRT /\ [][NextRT]_vars

(***************************************************************************)
(* What the claims about fromCSV speak of: the rows the tokenizer gives    *)
(* for the text of the call, and the data rows among them.                 *)
(***************************************************************************)
DecReturned == pc # "call" /\ call.op = "fromCSV"

DecStr == Preprocess(call.csvStr.s)

DecRows == csvToArray(DecStr, OptDelimiter(call.options)).rows

DecStart == IF call.options.includeHeader THEN 1 ELSE 0

DecLines == SubSeq(DecRows, DecStart + 1, Len(DecRows))

\* The columns the caller supplied, normalized (none when columns is absent:
\* a synthesized column is never required and has no parser).
GivenCols == IF call.columns.given THEN MapDetectColumn(call.columns.items) ELSE <<>>

EmptyValue(v) == v.t \in {"null", "undefined"} \/ (v.t = "string" /\ v.s = <<>>)

KeyedRequired(column) ==
    /\ column.kind = "object"
    /\ column.key.t = "string"
    /\ column.key.s # <<>>
    /\ column.required

\* The value of the cell of data row r under column c after its parser, if
\* any, has been applied (r and c 1-based).
PostParse(r, c) ==
    DecodeCell(DecLines[r], r - 1, GivenCols[c], c - 1, DecStart,
               call.options.includeEmptyValues).value

\* The cells (data row, column) of a keyed required column with an empty value.
Offending ==
    {o \in (1..Len(DecLines)) \X (1..Len(GivenCols)) :
        KeyedRequired(GivenCols[o[2]]) /\ EmptyValue(PostParse(o[1], o[2]))}

RequiredFailure == ret.kind = "throw" /\ ret.error = "Required column is empty"

\* C3: fromCSV fails with the error naming the column key, and returns no
\* record, if and only if some data row has a keyed required column whose
\* post-parse value is null, undefined or the empty text (also when the row
\* is shorter than the column's position), whatever the other columns and
\* the earlier rows hold.
C3_RequiredField ==
    DecReturned =>
        /\ RequiredFailure <=> Offending # {}
        /\ RequiredFailure =>
              /\ ret.records = <<>>
              /\ \E o \in Offending : GivenCols[o[2]].key.s = ret.key

\* A failure on the second data row, which is shorter than the required
\* column's position, after a first row that is valid.
C3_Witness ==
    /\ DecReturned
    /\ RequiredFailure
    /\ Len(DecLines) = 2
    /\ Offending = {<<2, 2>>}
    /\ Len(DecLines[2]) = 1
    /\ DecLines[2][1] = Str(A)

\* The record fromCSV is to build from a row under the keys synthesized for
\* the columns (keys[c] undefined or empty: no key), from column c on.
RECURSIVE ExpectedRecord(_, _, _, _, _)
ExpectedRecord(row, keys, c, includeEmptyValues, acc) ==
    IF c > Len(keys) THEN acc
    ELSE
        LET cell == IF c <= Len(row) THEN row[c] ELSE Undefined
            keyed == keys[c].t = "string" /\ keys[c].s # <<>>
        IN  ExpectedRecord(row, keys, c + 1, includeEmptyValues,
                IF keyed /\ (includeEmptyValues \/ ~EmptyValue(cell))
                THEN Put(acc, keys[c].s, cell)
                ELSE acc)

\* col1 .. colN
PositionalKeys(n) == [c \in 1..n |-> Str(<<"c", "o", "l">> \o NumberToString(c))]

\* C6: with columns absent and a non-empty text, (a) without includeHeader
\* every record is keyed col1 .. colN, N the cell count of the first row,
\* and the first row is itself returned as a record; (b) with includeHeader
\* the keys are the cell texts of the first row in their order, and the
\* first row is not returned as a record.
C6_ColumnSynthesis ==
    (pc = "done" /\ call.op = "fromCSV" /\ ~call.columns.given /\ DecStr # <<>>) =>
        LET keys == IF call.options.includeHeader THEN DecRows[1]
                    ELSE PositionalKeys(Len(DecRows[1]))
        IN  /\ ret.kind = "ok"
            /\ Len(ret.records) = Len(DecLines)
            /\ \A i \in 1..Len(DecLines) :
                  ret.records[i] = ExpectedRecord(DecLines[i], keys, 1,
                                       call.options.includeEmptyValues, <<>>)

\* C5: line breaks added between adjacent data lines do not change the
\* result of fromCSV, which holds one record per data line (the lines after
\* the header line when includeHeader is set) when no column is required.
C5_BlankLines ==
    DecReturned =>
        /\ ret = fromCSV(Text(Join(call.lines, <<NL>>)), call.columns, call.options)
        /\ (\A c \in 1..Len(GivenCols) : ~GivenCols[c].required) =>
              /\ ret.kind = "ok"
              /\ Len(ret.records) = Len(call.lines) - DecStart

\* Three data lines, three line breaks then two between them, three records.
C5_Witness ==
    /\ pc = "done"
    /\ call.op = "fromCSV"
    /\ Len(call.lines) = 3
    /\ call.gaps = <<3, 2>>
    /\ ~call.options.includeHeader
    /\ ret.kind = "ok"
    /\ Len(ret.records) = 3

(***************************************************************************)
(* What the claims about toCSV and the round trip speak of.                *)
(***************************************************************************)
Encoded == pc # "call" /\ call.op = "toCSV" /\ csv.kind = "ok"

RoundTripped == pc \in {"done", "hang"} /\ call.op = "toCSV"

EncCols ==
    IF call.columns.given THEN MapDetectColumn(call.columns.items)
    ELSE detectColumnsFromJSON(call.rows.items, call.options)

\* A record's fields as a set: equality of records ignoring key order.
FieldSet(obj) == {obj[i] : i \in 1..Len(obj)}

\* Every field of the record is a non-empty text under a key of the columns.
TextRecord(obj) ==
    \A i \in 1..Len(obj) :
        /\ obj[i].v.t = "string"
        /\ obj[i].v.s # <<>>
        /\ \E c \in 1..Len(EncCols) : EncCols[c].key = Str(obj[i].k)

\* A keyed column whose parser and converter are inverses, or absent.
InverseColumn(column) ==
    /\ column.kind = "object"
    /\ column.key.t = "string"
    /\ column.key.s # <<>>
    /\ <<column.converter, column.parser>> \in {<<"none", "none">>, <<"suffix", "unsuffix">>}

\* C1: for records whose fields are each absent or a non-empty text, and
\* keyed columns whose parser and converter are inverses or absent,
\* fromCSV(toCSV(records, columns), columns) returns the records, field for
\* field and record for record, ignoring key order.
C1_RoundTrip ==
    (/\ RoundTripped
     /\ call.columns.given
     /\ \A c \in 1..Len(EncCols) : InverseColumn(EncCols[c])
     /\ \A r \in 1..Len(call.rows.items) : TextRecord(call.rows.items[r]))
    => /\ ret.kind = "ok"
       /\ Len(ret.records) = Len(call.rows.items)
       /\ \A r \in 1..Len(call.rows.items) :
             FieldSet(ret.records[r]) = FieldSet(call.rows.items[r])

\* C2: a single record {name: s}, s a non-empty text of ordinary
\* characters, delimiters, double quotes and line breaks, encoded with the
\* single column name and decoded with the same column, gives back exactly
\* one record whose name is s.
C2_QuotingIdempotence ==
    (/\ RoundTripped
     /\ call.columns = Given(<<StringColumn(Name)>>)
     /\ "=" \notin {call.rows.items[1][1].v.s[i] :
                       i \in 1..Len(call.rows.items[1][1].v.s)})
    => /\ ret.kind = "ok"
       /\ ret.records = call.rows.items

\* The pieces of s between the occurrences of ch.
RECURSIVE SplitOn(_, _)
SplitOn(s, ch) ==
    IF \A i \in 1..Len(s) : s[i] # ch THEN <<s>>
    ELSE LET i == CHOOSE i \in 1..Len(s) : s[i] = ch /\ \A j \in 1..(i - 1) : s[j] # ch
         IN  <<SubSeq(s, 1, i - 1)>> \o SplitOn(SubSeq(s, i + 1, Len(s)), ch)

\* The line number of the output text on which the record at 0-based index
\* r is written.
LineNumber(r) == r + (IF call.options.includeHeader THEN 2 ELSE 1)

HasFunction(column, field) == column.kind # "null" /\ column[field] # "none"

\* C7: the converter (on encode) and the parser (on decode) are called for
\* the record or data row at 0-based index r and the column at 0-based index
\* c with column = c and row = r + 1 without includeHeader, r + 2 with it;
\* the label a converter builds from (row, column) stands on line row of the
\* output text, and the label a parser builds is the field of record r.
C7_RowColumnNumbering ==
    Encoded =>
        /\ \A i \in 1..Len(csv.calls) :
              LET d == csv.calls[i]
              IN  /\ d.r < Len(call.rows.items) /\ d.c < Len(EncCols)
                  /\ HasFunction(EncCols[d.c + 1], "converter")
                  /\ d.column = d.c
                  /\ d.row = LineNumber(d.r)
                  /\ EncCols[d.c + 1].converter = "label" =>
                        SplitOn(SplitOn(csv.text, NL)[d.row],
                                OptDelimiter(call.options))[d.c + 1]
                            = <<"=">> \o columnLabel(d.c) \o NumberToString(LineNumber(d.r))
        /\ \A r \in 1..Len(call.rows.items), c \in 1..Len(EncCols) :
              HasFunction(EncCols[c], "converter") =>
                  \E i \in 1..Len(csv.calls) : csv.calls[i].r = r - 1 /\ csv.calls[i].c = c - 1
        /\ pc = "done" =>
              \A i \in 1..Len(ret.calls) :
                  LET d == ret.calls[i]
                  IN  /\ d.c < Len(EncCols)
                      /\ HasFunction(EncCols[d.c + 1], "parser")
                      /\ d.column = d.c
                      /\ d.row = LineNumber(d.r)
                      /\ EncCols[d.c + 1].parser = "label" =>
                            Get(ret.records[d.r + 1], EncCols[d.c + 1].key)
                                = Str(columnLabel(d.c) \o NumberToString(LineNumber(d.r)))

\* Two records written under a header line: the converter of the first
\* column writes =A2 and =A3 on lines 2 and 3, and the parser of the same
\* column, called with rows 2 and 3, gives A2 and A3.
C7_Witness ==
    /\ pc = "done"
    /\ call.op = "toCSV"
    /\ call.options.includeHeader
    /\ call.options.delimiter = ""
    /\ Len(call.rows.items) = 2
    /\ csv.text = <<",", NL, "=", "A", "2", ",", NL, "=", "A", "3", ",">>
    /\ [i \in 1..Len(csv.calls) |-> <<csv.calls[i].row, csv.calls[i].column>>]
           = <<<<2, 0>>, <<2, 1>>, <<3, 0>>, <<3, 1>>>>
    /\ [i \in 1..Len(ret.calls) |-> <<ret.calls[i].row, ret.calls[i].column>>]
           = <<<<2, 0>>, <<3, 0>>>>
    /\ ret.records = <<<<Field(B, Str(<<"A", "2">>))>>, <<Field(B, Str(<<"A", "3">>))>>>>

\* The value of the cell of a record under a column after the converter, if
\* any, has been applied.
PostConvert(obj, r, column, c) ==
    IF column.converter = "none" THEN Get(obj, column.key)
    ELSE Convert(column.converter, Get(obj, column.key), obj, column.key,
                 LineNumber(r), c)

\* The text of a cell: empty for null, undefined and objects, else the value
\* as toCSV writes it.
ExpectedCell(obj, r, column, c) ==
    IF column.kind = "null" THEN <<>>
    ELSE LET v == PostConvert(obj, r, column, c)
         IN  IF v.t \in {"null", "undefined", "object"} THEN <<>>
             ELSE IF shouldEscape(v) THEN escapeCSV(v.s)
             ELSE v.s

ExpectedLine(obj, r) ==
    Join([c \in 1..Len(EncCols) |-> ExpectedCell(obj, r, EncCols[c], c - 1)],
         <<OptDelimiter(call.options)>>)

\* C10: the text toCSV returns has, for every record, one line of one cell
\* per column in the columns' order, in which a cell whose value after the
\* converter is null, undefined or an object is the empty text, and every
\* other cell is the text of its value.
C10_ClearingRule ==
    Encoded =>
        csv.text =
            Join((IF call.options.includeHeader
                  THEN <<HeaderLine(EncCols, OptDelimiter(call.options))>> ELSE <<>>)
                 \o [r \in 1..Len(call.rows.items) |->
                        ExpectedLine(call.rows.items[r], r - 1)],
                 <<NL>>)

\* A record whose field a is an object and whose field b is a text, under
\* the columns a, b: the line is an empty cell, the delimiter and the text.
C10_Witness ==
    /\ Encoded
    /\ call.rows.items = <<<<Field(A, Obj), Field(B, Str(A))>>>>
    /\ call.columns = Given(<<StringColumn(A), StringColumn(B)>>)
    /\ ~call.options.includeHeader
    /\ call.options.delimiter = ""
    /\ csv.text = <<",", Q, "a", Q>>

(***************************************************************************)
(* SpecEsc: toCSV of one record {name: value} under the single column      *)
(* name, with or without a converter, the value a string of digits, date   *)
(* separators, the formula marker, the quote and an ordinary character, a  *)
(* number, a boolean, null or an object.                                   *)
(***************************************************************************)
EscChars == {"1", "-", "/", "=", Q, "a"}

EscValues ==
    {Str(s) : s \in Strings(EscChars, MaxEscLen)}
        \cup {Num(<<"5">>), Num(<<"5", ".", "2", "9">>), True, Null, Obj}

InitEsc ==
    /\ pc = "call"
    /\ call \in [op : {"toCSV"},
                 rows : {Array(<<<<Field(Name, v)>>>>) : v \in EscValues},
                 columns : {Given(<<Column(Str(Name), Undefined, FALSE, "none", FALSE, cv)>>) :
                               cv \in {"none", "suffix", "toNull"}},
                 options : [includeHeader : {FALSE}, includeEmptyValues : {FALSE},
                            delimiter : {""}]]
    /\ csv = <<>>
    /\ ret = NoRet
    /\ lastIndex = 0
    /\ results = <<<<>>>>

SpecEsc == InitEsc /\ [][ToCSVCall]_vars

\* digits, - or /, digits, - or /, digits: three non-empty runs of digits
\* between two separators.
DateLike(s) ==
    LET pieces == SplitOn([i \in 1..Len(s) |-> IF s[i] = "/" THEN "-" ELSE s[i]], "-")
    IN  /\ Len(pieces) = 3
        /\ \A p \in 1..3 :
              /\ pieces[p] # <<>>
              /\ \A i \in 1..Len(pieces[p]) : pieces[p][i] \in {Digits[d] : d \in 1..10}

QuoteCount(s) == Cardinality({i \in 1..Len(s) : s[i] = Q})

\* The text is s between two quotes, every quote of s doubled.
IsEscaped(text, s) ==
    /\ Len(text) >= 2
    /\ text[1] = Q
    /\ text[Len(text)] = Q
    /\ Unescape(SubSeq(text, 2, Len(text) - 1)) = s
    /\ Len(text) = Len(s) + QuoteCount(s) + 2

\* The value of the one cell of the record after the converter and the
\* clearing of null, undefined and objects.
EscCleared ==
    LET v == PostConvert(call.rows.items[1], 0, EncCols[1], 0)
    IN  IF v.t \in {"null", "undefined", "object"} THEN Str(<<>>) ELSE v

\* C11: the cell toCSV writes is its value between double quotes, every
\* embedded double quote doubled, if and only if the converted, cleared
\* value is a string, is not empty, does not start with = and is not
\* digits, - or /, digits, - or /, digits; every other value is written as
\* its default text, no quote added.
C11_EscapingRule ==
    (Encoded /\ Len(call.rows.items) = 1 /\ Len(EncCols) = 1 /\ EncCols[1].kind # "null") =>
        LET v == EscCleared
            quoted == /\ v.t = "string"
                      /\ v.s # <<>>
                      /\ v.s[1] # "="
                      /\ ~DateLike(v.s)
        IN  /\ quoted => IsEscaped(csv.text, v.s)
            /\ ~quoted => csv.text = v.s

\* A string with a quote in it, date-like but for the quote, is written
\* between quotes with its quote doubled.
C11_Witness ==
    /\ Encoded
    /\ call.columns.items[1].converter = "none"
    /\ call.rows.items[1][1].v = Str(<<"1", "-", Q, "-", "1">>)
    /\ csv.text = <<Q, "1", "-", Q, Q, "-", "1", Q>>

(***************************************************************************)
(* What the claims about the records fromCSV builds speak of.              *)
(***************************************************************************)
DecOk == DecReturned /\ pc = "done" /\ ret.kind = "ok"

\* The columns fromCSV works with: the caller's, normalized, or the ones
\* synthesized from the text.
DecCols ==
    IF call.columns.given THEN MapDetectColumn(call.columns.items)
    ELSE detectColumnsFromCSV(DecStr, call.options).columns

Keyed(column) == column.kind # "null" /\ column.key.t = "string" /\ column.key.s # <<>>

\* The raw cell of data row r at column c, undefined when the row is shorter.
RawCell(r, c) == IF c <= Len(DecLines[r]) THEN DecLines[r][c] ELSE Undefined

\* The value of the cell of data row r under column c of DecCols after its
\* parser, if any, has been applied to it.
Parsed(r, c) ==
    LET column == DecCols[c]
        raw == RawCell(r, c)
    IN  IF /\ column.parser # "none"
           /\ raw.t # "undefined"
           /\ (column.parseEmpty \/ raw # Str(<<>>))
        THEN Parse(column.parser, raw, column.key, r + DecStart, c - 1)
        ELSE raw

\* Column c writes its key into the record of data row r.
Writes(r, c) ==
    /\ Keyed(DecCols[c])
    /\ (call.options.includeEmptyValues \/ ~EmptyValue(Parsed(r, c)))

\* C12: in every record fromCSV returns, the key of a keyed column is
\* present if and only if includeEmptyValues is set or the value of the
\* column's cell after parsing is not null, undefined or the empty text
\* (for columns sharing a key: if and only if one of them writes it); no
\* other key is present, and unless includeEmptyValues is set no field
\* holds a null, undefined or empty value.
C12_AssignmentPolicy ==
    DecOk =>
        /\ Len(ret.records) = Len(DecLines)
        /\ \A r \in 1..Len(ret.records) :
              /\ \A c \in 1..Len(DecCols) :
                    Keyed(DecCols[c]) =>
                        (HasKey(ret.records[r], DecCols[c].key.s)
                            <=> \E d \in 1..Len(DecCols) :
                                    DecCols[d].key = DecCols[c].key /\ Writes(r, d))
              /\ \A i \in 1..Len(ret.records[r]) :
                    /\ \E c \in 1..Len(DecCols) :
                          Keyed(DecCols[c]) /\ DecCols[c].key.s = ret.records[r][i].k
                    /\ ~call.options.includeEmptyValues => ~EmptyValue(ret.records[r][i].v)

\* The row a, then an empty cell, under the columns a and b without
\* includeEmptyValues: the record has the key a only.
C12_Witness ==
    /\ DecOk
    /\ call.csvStr.s = <<"a", ",">>
    /\ call.columns = Given(<<StringColumn(A), StringColumn(B)>>)
    /\ ~call.options.includeEmptyValues
    /\ ~call.options.includeHeader
    /\ DecLines = <<<<Str(A), Str(<<>>)>>>>
    /\ ret.records = <<<<Field(A, Str(A))>>>>

(***************************************************************************)
(* SpecShape: toCSV and fromCSV called with a first argument of any shape: *)
(* an array of records or an array-like value that is not an array, a      *)
(* string or a value with text that is not a string.                       *)
(***************************************************************************)
InitShape ==
    /\ pc = "call"
    /\ \/ call \in [op : {"toCSV"},
                    rows : [isArray : BOOLEAN, items : Strings(Records, MaxShapeRecords)],
                    columns : EncColumns,
                    options : [includeHeader : BOOLEAN, includeEmptyValues : {FALSE},
                               delimiter : {""}]]
       \/ call \in [op : {"fromCSV"},
                    csvStr : [isString : BOOLEAN, s : Strings(DecChars, MaxShapeLen)],
                    columns : DecColumns,
                    options : DecOptions]
    /\ csv = <<>>
    /\ ret = NoRet
    /\ lastIndex = 0
    /\ results = <<>>

NextShape == ToCSVCall \/ FromCSVCall

SpecShape == InitShape /\ [][NextShape]_vars

\* C13: toCSV with a first argument that is not an array and fromCSV with a
\* first argument that is not a string fail with the error of the first
\* argument, whatever the columns and options: nothing is written or
\* returned, no converter and no parser is called, and no error of the
\* columns (absent with nothing to synthesize them from) comes first.
C13_InputShape ==
    /\ (pc # "call" /\ call.op = "toCSV" /\ ~call.rows.isArray) =>
          csv = [kind |-> "throw", error |-> "First argument is not an array",
                 text |-> <<>>, calls |-> <<>>]
    /\ (pc # "call" /\ call.op = "fromCSV" /\ ~call.csvStr.isString) =>
          /\ ret.kind = "throw"
          /\ ret.error = "First argument is not a string"
          /\ ret.records = <<>>
          /\ ret.calls = <<>>

\* toCSV has failed on an array-like of one record under columns with a
\* converter that the same record in an array would have had called.
C13_Witness ==
    /\ pc # "call"
    /\ call.op = "toCSV"
    /\ ~call.rows.isArray
    /\ call.rows.items = <<<<Field(A, Str(A))>>>>
    /\ csv.kind = "throw"
    /\ toCSV(Array(call.rows.items), call.columns, call.options).calls # <<>>

\* The lines toCSV joins: the header line when includeHeader is set, then
\* the line of every record in the records' order.
WireLines ==
    (IF call.options.includeHeader
     THEN <<HeaderLine(EncCols, OptDelimiter(call.options))>> ELSE <<>>)
    \o [r \in 1..Len(call.rows.items) |->
           getLine(call.rows.items[r], r - 1, EncCols, OptDelimiter(call.options),
                   IF call.options.includeHeader THEN 1 ELSE 0).line]

\* C14: the text toCSV returns is the header line (only with includeHeader)
\* and one line per record in record order, joined by a single line break,
\* and it never ends with a line break.
C14_WireFormat ==
    Encoded =>
        /\ csv.text = Join(WireLines, <<NL>>)
        /\ csv.text = <<>> \/ csv.text[Len(csv.text)] # NL

\* The text between a leading and a trailing line break.
Inner(s) == SubSeq(s, 2, Len(s) - 1)

\* C15: for a text t that neither starts nor ends with a line break, fromCSV
\* of a line break, t and a line break returns what fromCSV of t returns,
\* the columns and options being the same.
C15_LeadingTrailing ==
    (/\ DecReturned
     /\ Len(call.csvStr.s) >= 2
     /\ call.csvStr.s[1] = NL
     /\ call.csvStr.s[Len(call.csvStr.s)] = NL
     /\ Inner(call.csvStr.s) # <<>> =>
           /\ Inner(call.csvStr.s)[1] # NL
           /\ Inner(call.csvStr.s)[Len(Inner(call.csvStr.s))] # NL)
    => ret = fromCSV(Text(Inner(call.csvStr.s)), call.columns, call.options)

(***************************************************************************)
(* What the claims about the rows csvToArray returns speak of.             *)
(***************************************************************************)
TokReturned == pc = "done" /\ call.op = "csvToArray"

\* Every quote of s is half of a doubled quote.
RECURSIVE QuotesDoubled(_)
QuotesDoubled(s) ==
    IF s = <<>> THEN TRUE
    ELSE IF s[1] # Q THEN QuotesDoubled(Tail(s))
    ELSE Len(s) >= 2 /\ s[2] = Q /\ QuotesDoubled(SubSeq(s, 3, Len(s)))

\* The text is one quoted field.
QuotedField(s) ==
    /\ Len(s) >= 2
    /\ s[1] = Q
    /\ s[Len(s)] = Q
    /\ QuotesDoubled(SubSeq(s, 2, Len(s) - 1))

\* C16: every cell of every row csvToArray returns is a text, never
\* undefined or null, and a text that is one quoted field gives one row of
\* one cell, the content of the field with every doubled quote collapsed to
\* one: the empty text for the empty quoted field.
C16_CellsAreText ==
    TokReturned =>
        /\ \A r \in 1..Len(ret.rows) : \A c \in 1..Len(ret.rows[r]) :
              ret.rows[r][c].t = "string"
        /\ QuotedField(call.str) =>
              ret.rows = <<<<Str(Unescape(SubSeq(call.str, 2, Len(call.str) - 1)))>>>>

\* C17: for a text without quotes or line breaks csvToArray returns one
\* row whose cells are the texts between the delimiters, empty ones
\* included, in their order: k occurrences of the delimiter give k + 1
\* cells, and a text that begins with the delimiter has an empty first cell.
C17_CellPositions ==
    (/\ TokReturned
     /\ \A i \in 1..Len(call.str) : call.str[i] \notin {Q, NL, CR})
    => LET pieces == SplitOn(call.str, call.delimiter)
       IN  ret.rows = <<[i \in 1..Len(pieces) |-> Str(pieces[i])]>>

\* The parser of column c may be called on the cell of data row r.
Eligible(r, c) ==
    /\ Keyed(DecCols[c])
    /\ DecCols[c].parser # "none"
    /\ RawCell(r, c).t # "undefined"
    /\ (DecCols[c].parseEmpty \/ RawCell(r, c) # Str(<<>>))

\* The parser calls made on the cell of data row r at column c.
CallsOn(r, c) ==
    {i \in 1..Len(ret.calls) : ret.calls[i].r = r - 1 /\ ret.calls[i].c = c - 1}

\* Column c is the last column to write its key into the record of row r.
LastWriter(r, c) ==
    /\ Writes(r, c)
    /\ \A d \in (c + 1)..Len(DecCols) : ~(DecCols[d].key = DecCols[c].key /\ Writes(r, d))

\* C18: every parser call fromCSV makes is on a cell of a keyed column with
\* a parser, the cell being defined and, unless parseEmpty is set, not the
\* empty text, and is given the raw cell; when fromCSV succeeds every such
\* cell has its parser called exactly once; a value stored for a cell whose
\* parser was not called is the raw cell.
C18_ParsingEligibility ==
    (DecReturned /\ pc = "done") =>
        /\ \A i \in 1..Len(ret.calls) :
              LET r == ret.calls[i].r + 1
                  c == ret.calls[i].c + 1
              IN  /\ r \in 1..Len(DecLines) /\ c \in 1..Len(DecCols)
                  /\ Eligible(r, c)
                  /\ ret.calls[i].value = RawCell(r, c)
                  /\ CallsOn(r, c) = {i}
        /\ ret.kind = "ok" =>
              \A r \in 1..Len(DecLines), c \in 1..Len(DecCols) :
                  /\ Eligible(r, c) => CallsOn(r, c) # {}
                  /\ (LastWriter(r, c) /\ ~Eligible(r, c)) =>
                        Get(ret.records[r], DecCols[c].key) = RawCell(r, c)

\* Two data rows under a column with a parser and without parseEmpty: the
\* cell a of the first row is parsed, the empty cell of the second is not.
C18_Witness ==
    /\ DecOk
    /\ call.csvStr.s = <<"a", NL, ",">>
    /\ call.columns = Given(<<Column(Str(A), Undefined, FALSE, "label", FALSE, "none"),
                              Column(Str(A), Undefined, FALSE, "none", FALSE, "none")>>)
    /\ ~call.options.includeHeader /\ ~call.options.includeEmptyValues
    /\ DecLines = <<<<Str(A)>>, <<Str(<<>>), Str(<<>>)>>>>
    /\ Len(ret.calls) = 1
    /\ CallsOn(1, 1) = {1}
    /\ ret.records = <<<<Field(A, Str(<<"A", "1">>))>>, <<>>>>

(***************************************************************************)
(* SpecCols: toCSV and fromCSV called with a column sequence of up to      *)
(* MaxCols elements of any kind: a string, the empty string, a descriptor  *)
(* with or without a key, or another value (null, a number, ...).          *)
(***************************************************************************)
ColElems ==
    {StringColumn(A), StringColumn(B), StringColumn(<<>>), OtherColumn,
     Column(Str(B), Str(B), FALSE, "none", FALSE, "none"),
     KeyColumn(Undefined)}

\* The texts of one line of cells, each a or empty.
ColTexts == {Join(cells, <<",">>) : cells \in Strings({<<"a">>, <<>>}, MaxCols) \ {<<>>}}

InitCols ==
    /\ pc = "call"
    /\ \/ call \in [op : {"toCSV"},
                    rows : {Array(<<o>>) : o \in Records}
                             \cup {Array(<<o, <<>>>>) : o \in Records},
                    columns : {Given(cs) : cs \in Strings(ColElems, MaxCols)},
                    options : [includeHeader : BOOLEAN, includeEmptyValues : {FALSE},
                               delimiter : {""}]]
       \/ call \in [op : {"fromCSV"},
                    csvStr : {Text(s) : s \in ColTexts},
                    columns : {Given(cs) : cs \in Strings(ColElems, MaxCols)},
                    options : [includeHeader : {FALSE}, includeEmptyValues : BOOLEAN,
                               delimiter : {""}]]
    /\ csv = <<>>
    /\ ret = NoRet
    /\ lastIndex = 0
    /\ results = <<>>

SpecCols == InitCols /\ [][NextShape]_vars

\* What an element of a column sequence is to be normalized to.
Normalized(column) ==
    IF column.kind = "string" /\ column.key.s # <<>>
    THEN [kind |-> "object", key |-> column.key, header |-> Undefined, required |-> FALSE,
          parser |-> "none", parseEmpty |-> FALSE, converter |-> "none"]
    ELSE IF column.kind = "object" THEN column
    ELSE NullColumn

\* The columns in use, toCSV or fromCSV.
UsedCols == IF call.op = "toCSV" THEN EncCols ELSE DecCols

\* The cells of the data line of record r (1-based) of the text of toCSV.
DataCells(r) ==
    SplitOn(SplitOn(csv.text, NL)[r + (IF call.options.includeHeader THEN 1 ELSE 0)],
            OptDelimiter(call.options))

RECURSIVE KeysInOrder(_, _, _)
KeysInOrder(r, c, acc) ==
    IF c > Len(DecCols) THEN acc
    ELSE KeysInOrder(r, c + 1,
             IF Writes(r, c) /\ \A i \in 1..Len(acc) : acc[i] # DecCols[c].key.s
             THEN Append(acc, DecCols[c].key.s)
             ELSE acc)

\* C20: when fromCSV succeeds it returns one record per tokenized row after
\* the header row, if any, is dropped, the i-th record built from the i-th
\* of these rows, its keys in the order of the columns that wrote them and
\* each value that of the cell of its column.
C20_DecodeOrdering ==
    DecOk =>
        /\ Len(ret.records) = Len(DecRows) - DecStart
        /\ \A r \in 1..Len(ret.records) :
              /\ Keys(ret.records[r]) = KeysInOrder(r, 1, <<>>)
              /\ \A c \in 1..Len(DecCols) :
                    LastWriter(r, c) =>
                        Get(ret.records[r], DecCols[c].key) = Parsed(r, c)

\* Two rows of three cells under the columns a and b: two records, the
\* first of the first row and the second of the second, keys a then b.
C20_Witness ==
    /\ DecOk
    /\ call.csvStr.s = <<"a", ",", "a", ",", "a", NL, Q, "a", NL, "a", Q, ",", "a", ",", "a">>
    /\ call.columns = Given(<<StringColumn(A), StringColumn(B)>>)
    /\ ~call.options.includeHeader
    /\ ret.records = <<<<Field(A, Str(A)), Field(B, Str(A))>>,
                       <<Field(A, Str(<<"a", NL, "a">>)), Field(B, Str(A))>>>>

\* C21: fromCSV of a string with the columns absent, the empty text and a
\* text of line breaks only included, completes without an error and
\* returns a sequence of records, whatever the options.
C21_DecodeWithoutColumns ==
    (DecReturned /\ call.csvStr.isString /\ ~call.columns.given) =>
        /\ pc = "done"
        /\ ret.kind = "ok"

(***************************************************************************)
(* Helpers of the claims about labels.                                     *)
(***************************************************************************)
IndexIn(seq, x) == CHOOSE i \in 1..Len(seq) : seq[i] = x

IsLetters(s) == \A i \in 1..Len(s) : \E j \in 1..26 : letters[j] = s[i]

IsDigits(s) == \A i \in 1..Len(s) : \E j \in 1..10 : Digits[j] = s[i]

\* The number a letter string names in the bijective base-26 system (A = 1 .. Z = 26).
RECURSIVE BijectiveValue(_)
BijectiveValue(s) ==
    IF s = <<>> THEN 0
    ELSE 26 * BijectiveValue(SubSeq(s, 1, Len(s) - 1)) + IndexIn(letters, s[Len(s)])

\* The number a digit string denotes in decimal.
RECURSIVE DecimalValue(_)
DecimalValue(s) ==
    IF s = <<>> THEN 0
    ELSE 10 * DecimalValue(SubSeq(s, 1, Len(s) - 1)) + (IndexIn(Digits, s[Len(s)]) - 1)

\* The label splits into letters naming column + 1 and a canonical decimal of n.
LabelIs(label, column, n) ==
    \E k \in 1..(Len(label) - 1) :
        LET colPart == SubSeq(label, 1, k)
            rowPart == SubSeq(label, k + 1, Len(label))
        IN  /\ IsLetters(colPart)
            /\ BijectiveValue(colPart) = column + 1
            /\ IsDigits(rowPart)
            /\ (Len(rowPart) = 1 \/ rowPart[1] # "0")
            /\ DecimalValue(rowPart) = n

LabelDone == pc = "done" /\ call.op = "cellLabel"

C9_ZeroBasedRow ==
    LabelDone => LabelIs(ret.s, call.columnNumber, call.rowNumber + 1)

====
